---- MODULE Spec2Model ----
(***************************************************************************)
(* Model of the Klondike engine of src/backend: Card (card.py), Deck       *)
(* (deck.py) and GameManager (game_manager.py).                            *)
(*                                                                         *)
(* A Card object is identified by its (suit, value) pair: every deal       *)
(* builds one fresh object per pair (Deck.initialize_standard_deck) and    *)
(* drops the objects of the previous deal, so within one deal the pair     *)
(* names the object.  The mutable attribute face_up lives in the heap      *)
(* function face_up, so one object referenced from two piles has one flag. *)
(* Python lists and deques are sequences; Python index i is index i + 1.   *)
(***************************************************************************)
EXTENDS Integers, Sequences, FiniteSets, TLC

(***************************************************************************)
(* Bounds.  The program plays with values 1..13 and 7 columns; the model   *)
(* keeps the four suits and scales the number of values per suit and the   *)
(* number of columns.  The literals 13 (King), 7 (columns) and 52 (deck    *)
(* size) of the source scale with them.                                    *)
(***************************************************************************)
MaxValue == 2

NumCols == 2

MaxMoves == 3

MaxMovesDeep == 13

ShuffleSwaps == 2

MaxDeckLen == 2

MaxDraws == 40

NumGameIds == 3

MaxDeleted == 3

VARIABLES deck_cards, deck_size, deck_shuffled,
          tableau, foundations, stock, waste,
          face_up, moves_count, game_won,
          started, before, last_move, result,
          db_games, db_total_games

vars == <<deck_cards, deck_size, deck_shuffled, tableau, foundations, stock,
          waste, face_up, moves_count, game_won, started, before, last_move, result,
          db_games, db_total_games>>

gameVars == <<tableau, foundations, stock, waste, face_up, moves_count, game_won>>

deckVars == <<deck_cards, deck_size, deck_shuffled>>

dbVars == <<db_games, db_total_games>>

----------------------------------------------------------------------------
(* card.py *)

SUITS == <<"hearts", "diamonds", "clubs", "spades">>

SuitSet == {SUITS[i] : i \in 1..Len(SUITS)}

Values == 1..MaxValue

King == MaxValue

Card(suit, value) == [suit |-> suit, value |-> value]

AllCards == {Card(s, v) : s \in SuitSet, v \in Values}

DeckTotal == Cardinality(AllCards)

is_red(card) == card.suit \in {"hearts", "diamonds"}

\* mutant of can_place_on: the colours are not compared
can_place_on_any_colour(card, other) == card.value = other.value - 1

can_place_on(card, other) ==
    /\ card.value = other.value - 1
    /\ is_red(card) # is_red(other)

to_dict(card, fu) == [suit |-> card.suit, value |-> card.value, face_up |-> fu[card]]

----------------------------------------------------------------------------
(* Sequence helpers (Python list operations) *)

Min(a, b) == IF a < b THEN a ELSE b

Last(s) == s[Len(s)]

\* list.pop(i) for a 0-based index i: the list without that element
PopAt(s, i) == SubSeq(s, 1, i) \o SubSeq(s, i + 2, Len(s))

\* s[i:] and the list left by del s[i:], for a 0-based index i
SliceFrom(s, i) == SubSeq(s, i + 1, Len(s))

DelFrom(s, i) == SubSeq(s, 1, i)

Reverse(s) == [i \in 1..Len(s) |-> s[Len(s) + 1 - i]]

Range(s) == {s[i] : i \in 1..Len(s)}

Swap(s, i, j) == [k \in 1..Len(s) |-> IF k = i THEN s[j] ELSE IF k = j THEN s[i] ELSE s[k]]

----------------------------------------------------------------------------
(* deck.py *)

\* the deque built by initialize_standard_deck: suit-major, value ascending
StandardDeck ==
    [i \in 1..(Len(SUITS) * MaxValue) |->
        Card(SUITS[((i - 1) \div MaxValue) + 1], ((i - 1) % MaxValue) + 1)]

\* random.shuffle: the orders the model lets the shuffle produce, the order
\* given and the orders that exchange two neighbours among its first cards
ShuffleOutcomes(cards) ==
    {cards} \cup {Swap(cards, i, i + 1) : i \in 1..Min(ShuffleSwaps, Len(cards) - 1)}

----------------------------------------------------------------------------
(* game_manager.py: get_game_state *)

EmptyFoundations == [s \in SuitSet |-> <<>>]

EmptyTableau == [c \in 1..NumCols |-> <<>>]

Dicts(pile, fu) == [i \in 1..Len(pile) |-> to_dict(pile[i], fu)]

get_game_state(t, f, s, w, fu, mc, gw) ==
    [tableau |-> [c \in 1..NumCols |-> Dicts(t[c], fu)],
     foundations |-> [x \in SuitSet |-> Dicts(f[x], fu)],
     stock_count |-> Len(s),
     waste |-> Dicts(w, fu),
     moves_count |-> mc,
     game_won |-> gw]

CurrentState == get_game_state(tableau, foundations, stock, waste, face_up, moves_count, game_won)

Lifecycle == [started |-> started, game_won |-> game_won]

----------------------------------------------------------------------------
(* GameManager.__init__ *)

Init ==
    /\ deck_cards = <<>>
    /\ deck_size = 0
    /\ deck_shuffled = FALSE
    /\ tableau = EmptyTableau
    /\ foundations = EmptyFoundations
    /\ stock = <<>>
    /\ waste = <<>>
    /\ face_up = [c \in AllCards |-> FALSE]
    /\ moves_count = 0
    /\ game_won = FALSE
    /\ started = FALSE
    /\ before = [started |-> FALSE, game_won |-> FALSE]
    /\ last_move = <<>>
    /\ db_games = <<>>
    /\ db_total_games = 0
    /\ result = [op |-> "init", success |-> TRUE, message |-> "",
                 state |-> get_game_state(EmptyTableau, EmptyFoundations, <<>>, <<>>,
                                          [c \in AllCards |-> FALSE], 0, FALSE)]

----------------------------------------------------------------------------
(* GameManager.new_game *)

\* number of cards the columns before 0-based column col take
Offset(col) == (col * (col + 1)) \div 2

\* the cards draw_card hands to 0-based column col (fewer if the deck runs out)
DealColumn(d, col) == SubSeq(d, Offset(col) + 1, Min(Offset(col) + col + 1, Len(d)))

\* mutant of DealFaceUp: the flag is set when row = 0
DealFaceUpFirstRow(d) == {d[Offset(col) + 1] : col \in {c \in 0..(NumCols - 1) : Offset(c) + 1 <= Len(d)}}

\* the cards dealt with row = col, whose face_up is set
DealFaceUp(d) == {d[Offset(col) + col + 1] : col \in {c \in 0..(NumCols - 1) : Offset(c) + c + 1 <= Len(d)}}

DealStock(d) == SubSeq(d, Offset(NumCols) + 1, Len(d))

\* mutant of NewGameWith: the counter of the previous game is kept
NewGameKeepsCount(d) ==
    /\ deck_cards' = <<>>
    /\ deck_size' = 0
    /\ deck_shuffled' = TRUE
    /\ tableau' = [c \in 1..NumCols |-> DealColumn(d, c - 1)]
    /\ foundations' = EmptyFoundations
    /\ stock' = DealStock(d)
    /\ waste' = <<>>
    /\ face_up' = [c \in AllCards |-> c \in DealFaceUp(d)]
    /\ moves_count' = moves_count
    /\ game_won' = FALSE
    /\ started' = TRUE
    /\ before' = Lifecycle
    /\ UNCHANGED dbVars
    /\ last_move' = <<>>
    /\ result' = [op |-> "new_game", success |-> TRUE, message |-> "",
                  state |-> get_game_state(tableau', foundations', stock', waste',
                                           face_up', moves_count', game_won')]

NewGameWith(d) ==
    /\ deck_cards' = <<>>
    /\ deck_size' = 0
    /\ deck_shuffled' = TRUE
    /\ tableau' = [c \in 1..NumCols |-> DealColumn(d, c - 1)]
    /\ foundations' = EmptyFoundations
    /\ stock' = DealStock(d)
    /\ waste' = <<>>
    /\ face_up' = [c \in AllCards |-> c \in DealFaceUp(d)]
    /\ moves_count' = 0
    /\ game_won' = FALSE
    /\ started' = TRUE
    /\ before' = Lifecycle
    /\ UNCHANGED dbVars
    /\ last_move' = <<>>
    /\ result' = [op |-> "new_game", success |-> TRUE, message |-> "",
                  state |-> get_game_state(tableau', foundations', stock', waste',
                                           face_up', moves_count', game_won')]

NewGame == \E d \in ShuffleOutcomes(StandardDeck) : NewGameWith(d)

----------------------------------------------------------------------------
(* GameManager.draw_from_stock *)

\* mutant of DrawCardWithin: the drawn card is not turned
DrawCardNoFlip(cap) ==
    /\ Len(stock) > 0
    /\ moves_count < cap
    /\ stock' = Tail(stock)
    /\ waste' = Append(waste, Head(stock))
    /\ moves_count' = moves_count + 1
    /\ UNCHANGED <<tableau, foundations, game_won, started, deckVars, face_up>>
    /\ before' = Lifecycle
    /\ UNCHANGED dbVars
    /\ last_move' = <<>>
    /\ result' = [op |-> "draw_from_stock", success |-> TRUE,
                  message |-> "Carta extraida del mazo",
                  state |-> get_game_state(tableau', foundations', stock', waste',
                                           face_up', moves_count', game_won')]

\* mutant of DrawCardWithin: pop() in place of popleft()
DrawCardFromBack(cap) ==
    /\ Len(stock) > 0
    /\ moves_count < cap
    /\ stock' = SubSeq(stock, 1, Len(stock) - 1)
    /\ face_up' = [face_up EXCEPT ![Last(stock)] = TRUE]
    /\ waste' = Append(waste, Last(stock))
    /\ moves_count' = moves_count + 1
    /\ UNCHANGED <<tableau, foundations, game_won, started, deckVars>>
    /\ before' = Lifecycle
    /\ UNCHANGED dbVars
    /\ last_move' = <<>>
    /\ result' = [op |-> "draw_from_stock", success |-> TRUE,
                  message |-> "Carta extraida del mazo",
                  state |-> get_game_state(tableau', foundations', stock', waste',
                                           face_up', moves_count', game_won')]

DrawCardWithin(cap) ==
    /\ Len(stock) > 0
    /\ moves_count < cap
    /\ stock' = Tail(stock)
    /\ face_up' = [face_up EXCEPT ![Head(stock)] = TRUE]
    /\ waste' = Append(waste, Head(stock))
    /\ moves_count' = moves_count + 1
    /\ UNCHANGED <<tableau, foundations, game_won, started, deckVars>>
    /\ before' = Lifecycle
    /\ UNCHANGED dbVars
    /\ last_move' = <<>>
    /\ result' = [op |-> "draw_from_stock", success |-> TRUE,
                  message |-> "Carta extraida del mazo",
                  state |-> get_game_state(tableau', foundations', stock', waste',
                                           face_up', moves_count', game_won')]

DrawCard == DrawCardWithin(MaxMoves)

\* mutant of Recycle: the waste goes back to stock in the order it lies in
RecycleKeepsOrder ==
    /\ Len(stock) = 0
    /\ stock' = waste
    /\ waste' = <<>>
    /\ face_up' = [c \in AllCards |-> IF c \in Range(waste) THEN FALSE ELSE face_up[c]]
    /\ UNCHANGED <<tableau, foundations, moves_count, game_won, started, deckVars>>
    /\ before' = Lifecycle
    /\ UNCHANGED dbVars
    /\ last_move' = <<>>
    /\ result' = [op |-> "draw_from_stock", success |-> TRUE,
                  message |-> "Mazo reiniciado",
                  state |-> get_game_state(tableau', foundations', stock', waste',
                                           face_up', moves_count', game_won')]

\* mutant of Recycle: the recycle starts the count of moves again
RecycleResetsCount ==
    /\ Len(stock) = 0
    /\ stock' = Reverse(waste)
    /\ waste' = <<>>
    /\ face_up' = [c \in AllCards |-> IF c \in Range(waste) THEN FALSE ELSE face_up[c]]
    /\ moves_count' = 0
    /\ UNCHANGED <<tableau, foundations, game_won, started, deckVars>>
    /\ before' = Lifecycle
    /\ UNCHANGED dbVars
    /\ last_move' = <<>>
    /\ result' = [op |-> "draw_from_stock", success |-> TRUE,
                  message |-> "Mazo reiniciado",
                  state |-> get_game_state(tableau', foundations', stock', waste',
                                           face_up', moves_count', game_won')]

\* mutant of Recycle: an empty stock is reported and the waste stays where it is
RecycleLeavesWaste ==
    /\ Len(stock) = 0
    /\ UNCHANGED <<tableau, foundations, stock, waste, face_up, moves_count, game_won,
                   started, deckVars>>
    /\ before' = Lifecycle
    /\ UNCHANGED dbVars
    /\ last_move' = <<>>
    /\ result' = [op |-> "draw_from_stock", success |-> TRUE,
                  message |-> "Mazo reiniciado",
                  state |-> get_game_state(tableau', foundations', stock', waste',
                                           face_up', moves_count', game_won')]

\* mutant of Recycle: the recycle is counted as a move
RecycleCounted ==
    /\ Len(stock) = 0
    /\ stock' = Reverse(waste)
    /\ waste' = <<>>
    /\ face_up' = [c \in AllCards |-> IF c \in Range(waste) THEN FALSE ELSE face_up[c]]
    /\ moves_count' = IF moves_count < MaxMoves THEN moves_count + 1 ELSE moves_count
    /\ UNCHANGED <<tableau, foundations, game_won, started, deckVars>>
    /\ before' = Lifecycle
    /\ UNCHANGED dbVars
    /\ last_move' = <<>>
    /\ result' = [op |-> "draw_from_stock", success |-> TRUE,
                  message |-> "Mazo reiniciado",
                  state |-> get_game_state(tableau', foundations', stock', waste',
                                           face_up', moves_count', game_won')]

Recycle ==
    /\ Len(stock) = 0
    /\ stock' = Reverse(waste)
    /\ waste' = <<>>
    /\ face_up' = [c \in AllCards |-> IF c \in Range(waste) THEN FALSE ELSE face_up[c]]
    /\ UNCHANGED <<tableau, foundations, moves_count, game_won, started, deckVars>>
    /\ before' = Lifecycle
    /\ UNCHANGED dbVars
    /\ last_move' = <<>>
    /\ result' = [op |-> "draw_from_stock", success |-> TRUE,
                  message |-> "Mazo reiniciado",
                  state |-> get_game_state(tableau', foundations', stock', waste',
                                           face_up', moves_count', game_won')]

----------------------------------------------------------------------------
(* GameManager.move_card                                                   *)
(*                                                                         *)
(* A location string is modelled by the list of tokens that                *)
(* location.split('_') yields: 'tableau_0' is <<"tableau", "0">>.          *)

DigitValue == ("0" :> 0) @@ ("1" :> 1) @@ ("2" :> 2) @@ ("3" :> 3) @@ ("4" :> 4) @@
              ("5" :> 5) @@ ("6" :> 6) @@ ("7" :> 7) @@ ("8" :> 8) @@ ("9" :> 9)

Digits == DOMAIN DigitValue

\* tokens made of characters of the regex class \w only
WordTokens == SuitSet \cup Digits \cup {"stars", "x", "12"}

\* re.match(r'^(tableau_\d|foundation_\w+|waste|stock)$', location)
MatchesPattern(loc) ==
    \/ loc = <<"waste">>
    \/ loc = <<"stock">>
    \/ Len(loc) = 2 /\ loc[1] = "tableau" /\ loc[2] \in Digits
    \/ /\ Len(loc) >= 2
       /\ loc[1] = "foundation"
       /\ \A i \in 2..Len(loc) : loc[i] \in WordTokens \cup {""}
       /\ Len(loc) > 2 \/ loc[2] # ""

None == <<"None">>

\* the list object _get_pile returns: a pile of the engine, named by its
\* key, or None; for waste and stock the key names a fresh copy
PileKey(loc) ==
    IF loc[1] = "tableau" /\ Len(loc) >= 2
    THEN IF loc[2] \in Digits /\ DigitValue[loc[2]] < NumCols
         THEN <<"tableau", loc[2]>> ELSE None
    ELSE IF loc[1] = "foundation" /\ Len(loc) >= 2
    THEN IF loc[2] \in SuitSet THEN <<"foundation", loc[2]>> ELSE None
    ELSE IF loc = <<"waste">> THEN <<"waste">>
    ELSE IF loc = <<"stock">> THEN <<"stock">>
    ELSE None

\* TRUE when _get_pile returns the engine's own list, FALSE for list(...) copies
IsLive(key) == key[1] \in {"tableau", "foundation"}

_get_pile(loc) ==
    LET key == PileKey(loc) IN
    IF key[1] = "tableau" THEN tableau[DigitValue[key[2]] + 1]
    ELSE IF key[1] = "foundation" THEN foundations[key[2]]
    ELSE IF key[1] = "waste" THEN waste
    ELSE stock

\* mutant of _can_move_to_foundation: the suit of the card is not compared
_can_move_to_foundation_any_suit(card, foundation_location) ==
    LET suit == foundation_location[2] IN
    IF Len(foundations[suit]) = 0 THEN card.value = 1
    ELSE card.value = Last(foundations[suit]).value + 1

\* mutant of _can_move_to_foundation: an empty foundation takes any value
_can_move_to_foundation_any_first(card, foundation_location) ==
    LET suit == foundation_location[2] IN
    IF card.suit # suit THEN FALSE
    ELSE IF Len(foundations[suit]) = 0 THEN TRUE
    ELSE card.value = Last(foundations[suit]).value + 1

_can_move_to_foundation(card, foundation_location) ==
    LET suit == foundation_location[2] IN
    IF card.suit # suit THEN FALSE
    ELSE IF Len(foundations[suit]) = 0 THEN card.value = 1
    ELSE card.value = Last(foundations[suit]).value + 1

_can_move_to_tableau(from_pile, card_index, to_pile) ==
    LET card == from_pile[card_index + 1] IN
    IF Len(to_pile) = 0 THEN card.value = King
    ELSE can_place_on(card, Last(to_pile))

RECURSIVE SumLen(_, _)
SumLen(f, S) ==
    IF S = {} THEN 0
    ELSE LET x == CHOOSE y \in S : TRUE IN Len(f[x]) + SumLen(f, S \ {x})

\* mutant of _check_win_condition: the flag is assigned the comparison
_check_win_condition_assigned(f, gw) == SumLen(f, SuitSet) = DeckTotal

\* the value _check_win_condition leaves in game_won
_check_win_condition(f, gw) == IF SumLen(f, SuitSet) = DeckTotal THEN TRUE ELSE gw

\* mutant of MoveFailure: the index is checked before the source is found empty
MoveFailureIndexFirst(from_location, to_location, card_index) ==
    IF ~MatchesPattern(from_location) \/ ~MatchesPattern(to_location)
    THEN "Formato de ubicacion invalido"
    ELSE IF PileKey(from_location) = None \/ PileKey(to_location) = None
    THEN "Ubicacion no encontrada"
    ELSE LET from_pile == _get_pile(from_location)
             to_pile == _get_pile(to_location)
             index == IF card_index = -1 THEN Len(from_pile) - 1 ELSE card_index
         IN IF index < 0 \/ index >= Len(from_pile) THEN "Indice de carta invalido"
            ELSE IF Len(from_pile) = 0 THEN "No hay cartas en la ubicacion origen"
            ELSE IF ~face_up[from_pile[index + 1]] /\ index # Len(from_pile) - 1
            THEN "No puedes mover cartas boca abajo"
            ELSE IF to_location[1] = "foundation"
            THEN IF ~_can_move_to_foundation(from_pile[index + 1], to_location)
                 THEN "Movimiento no valido a la fundacion" ELSE ""
            ELSE IF ~_can_move_to_tableau(from_pile, index, to_pile)
                 THEN "Movimiento no valido al tableau" ELSE ""

\* mutant of MoveFailure: a negative index counts from the end of the pile
MoveFailureNegativeIndex(from_location, to_location, card_index) ==
    IF ~MatchesPattern(from_location) \/ ~MatchesPattern(to_location)
    THEN "Formato de ubicacion invalido"
    ELSE IF PileKey(from_location) = None \/ PileKey(to_location) = None
    THEN "Ubicacion no encontrada"
    ELSE LET from_pile == _get_pile(from_location)
             to_pile == _get_pile(to_location)
             index == IF card_index < 0 THEN Len(from_pile) + card_index ELSE card_index
         IN IF Len(from_pile) = 0 THEN "No hay cartas en la ubicacion origen"
            ELSE IF index < 0 \/ index >= Len(from_pile) THEN "Indice de carta invalido"
            ELSE IF ~face_up[from_pile[index + 1]] /\ index # Len(from_pile) - 1
            THEN "No puedes mover cartas boca abajo"
            ELSE IF to_location[1] = "foundation"
            THEN IF ~_can_move_to_foundation(from_pile[index + 1], to_location)
                 THEN "Movimiento no valido a la fundacion" ELSE ""
            ELSE IF ~_can_move_to_tableau(from_pile, index, to_pile)
                 THEN "Movimiento no valido al tableau" ELSE ""

\* the message of the first failing check of move_card, "" when every check passes
MoveFailure(from_location, to_location, card_index) ==
    IF ~MatchesPattern(from_location) \/ ~MatchesPattern(to_location)
    THEN "Formato de ubicacion invalido"
    ELSE IF PileKey(from_location) = None \/ PileKey(to_location) = None
    THEN "Ubicacion no encontrada"
    ELSE LET from_pile == _get_pile(from_location)
             to_pile == _get_pile(to_location)
             index == IF card_index = -1 THEN Len(from_pile) - 1 ELSE card_index
         IN IF Len(from_pile) = 0 THEN "No hay cartas en la ubicacion origen"
            ELSE IF index < 0 \/ index >= Len(from_pile) THEN "Indice de carta invalido"
            ELSE IF ~face_up[from_pile[index + 1]] /\ index # Len(from_pile) - 1
            THEN "No puedes mover cartas boca abajo"
            ELSE IF to_location[1] = "foundation"
            THEN IF ~_can_move_to_foundation(from_pile[index + 1], to_location)
                 THEN "Movimiento no valido a la fundacion" ELSE ""
            ELSE IF ~_can_move_to_tableau(from_pile, index, to_pile)
                 THEN "Movimiento no valido al tableau" ELSE ""

\* the two list objects after the pop / del and the appends of a legal move
MovedPiles(from_location, to_location, card_index) ==
    LET from_key == PileKey(from_location)
        to_key == PileKey(to_location)
        from_pile == _get_pile(from_location)
        to_pile == _get_pile(to_location)
        index == IF card_index = -1 THEN Len(from_pile) - 1 ELSE card_index
        to_foundation == to_location[1] = "foundation"
        cards_to_move == IF to_foundation THEN <<from_pile[index + 1]>>
                         ELSE SliceFrom(from_pile, index)
        from_cut == IF to_foundation THEN PopAt(from_pile, index)
                    ELSE DelFrom(from_pile, index)
        same_list == IsLive(from_key) /\ from_key = to_key
        to_new == (IF same_list THEN from_cut ELSE to_pile) \o cards_to_move
    IN [from_key |-> from_key, to_key |-> to_key,
        from_pile |-> IF same_list THEN to_new ELSE from_cut,
        to_pile |-> to_new]

\* the engine's pile named by key after the move: copies are not stored back
StoredPile(key, old, m) ==
    IF IsLive(m.to_key) /\ key = m.to_key THEN m.to_pile
    ELSE IF IsLive(m.from_key) /\ key = m.from_key THEN m.from_pile
    ELSE old

\* cards_to_move: the card at the index for a foundation, else the slice from it
MovedCards(from_location, to_location, card_index) ==
    LET from_pile == _get_pile(from_location)
        index == IF card_index = -1 THEN Len(from_pile) - 1 ELSE card_index
    IN IF to_location[1] = "foundation" THEN <<from_pile[index + 1]>>
       ELSE SliceFrom(from_pile, index)

\* mutant of MoveOkWithin: the counter grows by the number of cards moved
MoveOkCountsCards(cap, from_location, to_location, card_index) ==
    /\ MoveFailure(from_location, to_location, card_index) = ""
    /\ moves_count < cap
    /\ LET m == MovedPiles(from_location, to_location, card_index) IN
        /\ tableau' = [c \in 1..NumCols |->
                          StoredPile(<<"tableau", CHOOSE d \in Digits : DigitValue[d] = c - 1>>,
                                     tableau[c], m)]
        /\ foundations' = [s \in SuitSet |-> StoredPile(<<"foundation", s>>, foundations[s], m)]
        /\ face_up' = IF Len(m.from_pile) > 0 /\ ~face_up[Last(m.from_pile)]
                      THEN [face_up EXCEPT ![Last(m.from_pile)] = TRUE]
                      ELSE face_up
    /\ moves_count' = moves_count + Len(MovedCards(from_location, to_location, card_index))
    /\ game_won' = _check_win_condition(foundations', game_won)
    /\ UNCHANGED <<stock, waste, started, deckVars>>
    /\ before' = Lifecycle
    /\ UNCHANGED dbVars
    /\ last_move' = <<from_location, to_location,
                     IF card_index = -1 THEN Len(_get_pile(from_location)) - 1 ELSE card_index,
                     Len(MovedCards(from_location, to_location, card_index))>>
    /\ result' = [op |-> "move_card", success |-> TRUE, message |-> "Movimiento exitoso",
                  state |-> get_game_state(tableau', foundations', stock', waste',
                                           face_up', moves_count', game_won')]

\* mutant of MoveOkWithin: a won game takes no more moves
MoveOkUnlessWon(cap, from_location, to_location, card_index) ==
    /\ ~game_won
    /\ MoveFailure(from_location, to_location, card_index) = ""
    /\ moves_count < cap
    /\ LET m == MovedPiles(from_location, to_location, card_index) IN
        /\ tableau' = [c \in 1..NumCols |->
                          StoredPile(<<"tableau", CHOOSE d \in Digits : DigitValue[d] = c - 1>>,
                                     tableau[c], m)]
        /\ foundations' = [s \in SuitSet |-> StoredPile(<<"foundation", s>>, foundations[s], m)]
        /\ face_up' = IF Len(m.from_pile) > 0 /\ ~face_up[Last(m.from_pile)]
                      THEN [face_up EXCEPT ![Last(m.from_pile)] = TRUE]
                      ELSE face_up
    /\ moves_count' = moves_count + 1
    /\ game_won' = _check_win_condition(foundations', game_won)
    /\ UNCHANGED <<stock, waste, started, deckVars>>
    /\ before' = Lifecycle
    /\ UNCHANGED dbVars
    /\ last_move' = <<from_location, to_location,
                     IF card_index = -1 THEN Len(_get_pile(from_location)) - 1 ELSE card_index,
                     Len(MovedCards(from_location, to_location, card_index))>>
    /\ result' = [op |-> "move_card", success |-> TRUE, message |-> "Movimiento exitoso",
                  state |-> get_game_state(tableau', foundations', stock', waste',
                                           face_up', moves_count', game_won')]

MoveOkWithin(cap, from_location, to_location, card_index) ==
    /\ MoveFailure(from_location, to_location, card_index) = ""
    /\ moves_count < cap
    /\ LET m == MovedPiles(from_location, to_location, card_index) IN
        /\ tableau' = [c \in 1..NumCols |->
                          StoredPile(<<"tableau", CHOOSE d \in Digits : DigitValue[d] = c - 1>>,
                                     tableau[c], m)]
        /\ foundations' = [s \in SuitSet |-> StoredPile(<<"foundation", s>>, foundations[s], m)]
        /\ face_up' = IF Len(m.from_pile) > 0 /\ ~face_up[Last(m.from_pile)]
                      THEN [face_up EXCEPT ![Last(m.from_pile)] = TRUE]
                      ELSE face_up
    /\ moves_count' = moves_count + 1
    /\ game_won' = _check_win_condition(foundations', game_won)
    /\ UNCHANGED <<stock, waste, started, deckVars>>
    /\ before' = Lifecycle
    /\ UNCHANGED dbVars
    /\ last_move' = <<from_location, to_location,
                     IF card_index = -1 THEN Len(_get_pile(from_location)) - 1 ELSE card_index,
                     Len(MovedCards(from_location, to_location, card_index))>>
    /\ result' = [op |-> "move_card", success |-> TRUE, message |-> "Movimiento exitoso",
                  state |-> get_game_state(tableau', foundations', stock', waste',
                                           face_up', moves_count', game_won')]

MoveOk(from_location, to_location, card_index) ==
    MoveOkWithin(MaxMoves, from_location, to_location, card_index)

----------------------------------------------------------------------------
(* Inputs of move_card *)

TableauLocations == {<<"tableau", d>> : d \in {x \in Digits : DigitValue[x] <= NumCols}}

FoundationLocations == {<<"foundation", s>> : s \in SuitSet}

\* 'Waste', 'foundation_stars' and 'foundation_hearts_x'
Locations == TableauLocations \cup FoundationLocations \cup
             {<<"waste">>, <<"stock">>, <<"Waste">>, <<"foundation", "stars">>,
              <<"foundation", "hearts", "x">>}

\* the card_index values tried on a source: -1 (the default), -2, every index
\* of the pile and the first index past its end; a source that names no pile
\* is tried with the default only, since the index is never read
CardIndexes(from_location) ==
    IF MatchesPattern(from_location) /\ PileKey(from_location) # None
    THEN -2..Len(_get_pile(from_location))
    ELSE {-1}

\* the failures move_card can report in the current state
FailuresNow ==
    UNION {UNION {{MoveFailure(from_location, to_location, card_index) :
                        card_index \in CardIndexes(from_location)} :
                  to_location \in Locations} :
           from_location \in Locations}
    \ {""}

\* mutant of MoveFails: the call is counted before it is validated
MoveFailsCounted(message) ==
    /\ moves_count' = IF moves_count < MaxMoves THEN moves_count + 1 ELSE moves_count
    /\ UNCHANGED <<tableau, foundations, stock, waste, face_up, game_won, started, deckVars>>
    /\ before' = Lifecycle
    /\ UNCHANGED dbVars
    /\ last_move' = <<>>
    /\ result' = [op |-> "move_card", success |-> FALSE, message |-> message,
                  state |-> get_game_state(tableau', foundations', stock', waste',
                                           face_up', moves_count', game_won')]

\* move_card calls that return success = False: the calls failing with one
\* message all leave the engine in one state
MoveFails(message) ==
    /\ UNCHANGED <<gameVars, started, deckVars>>
    /\ before' = Lifecycle
    /\ UNCHANGED dbVars
    /\ last_move' = <<>>
    /\ result' = [op |-> "move_card", success |-> FALSE, message |-> message,
                  state |-> CurrentState]

\* move_card calls that return success = False
MoveCardFails == \E message \in FailuresNow : MoveFails(message)

\* move_card calls that return success = True
MoveCardOk ==
    \E from_location \in Locations, to_location \in Locations :
        /\ MatchesPattern(from_location) /\ MatchesPattern(to_location)
        /\ \E card_index \in CardIndexes(from_location) :
               MoveOk(from_location, to_location, card_index)

Next ==
    \/ NewGame
    \/ DrawCard
    \/ Recycle
    \/ MoveCardFails
    \/ MoveCardOk

Spec == Init /\ [][Next]_vars

(***************************************************************************)
(* Draws without end: the game is dealt once and the caller then calls     *)
(* draw_from_stock again and again, and never stops calling it.  The       *)
(* counter is followed up to MaxDraws and stays there: draw_from_stock     *)
(* adds to moves_count and nothing in the engine reads it.                 *)
(***************************************************************************)
DrawCardCountedTo(cap) ==
    /\ Len(stock) > 0
    /\ stock' = Tail(stock)
    /\ face_up' = [face_up EXCEPT ![Head(stock)] = TRUE]
    /\ waste' = Append(waste, Head(stock))
    /\ moves_count' = Min(moves_count + 1, cap)
    /\ UNCHANGED <<tableau, foundations, game_won, started, deckVars>>
    /\ before' = Lifecycle
    /\ UNCHANGED dbVars
    /\ last_move' = <<>>
    /\ result' = [op |-> "draw_from_stock", success |-> TRUE,
                  message |-> "Carta extraida del mazo",
                  state |-> get_game_state(tableau', foundations', stock', waste',
                                           face_up', moves_count', game_won')]

DrawsNext ==
    \/ ~started /\ NewGame
    \/ DrawCardCountedTo(MaxDraws)
    \/ Recycle

SpecDraws ==
    /\ Init
    /\ [][DrawsNext]_vars
    /\ WF_vars(DrawCardCountedTo(MaxDraws))
    /\ WF_vars(Recycle)

(***************************************************************************)
(* The accepted calls alone.  A call that fails changes none of the        *)
(* engine's attributes, so the states the accepted calls of Spec lead to   *)
(* are all the states the engine is in when a call is made.                *)
(***************************************************************************)
AcceptedNext ==
    \/ NewGame
    \/ DrawCard
    \/ Recycle
    \/ MoveCardOk

SpecAccepted == Init /\ [][AcceptedNext]_vars

(***************************************************************************)
(* Long games: the shuffle leaves the deck in the order it was built in    *)
(* and the caller plays to the foundations and takes cards back from them: *)
(* legal moves only, with the default card_index, either onto a foundation *)
(* or from a foundation onto a tableau column, up to MaxMovesDeep counted  *)
(* moves.  Once the game is won the caller also makes the calls that fail. *)
(***************************************************************************)
ValidTableauLocations == {<<"tableau", d>> : d \in {x \in Digits : DigitValue[x] < NumCols}}

DeepCalls ==
    ((ValidTableauLocations \cup {<<"waste">>, <<"stock">>}) \X FoundationLocations)
    \cup (FoundationLocations \X ValidTableauLocations)

DeepNext ==
    \/ NewGameWith(StandardDeck)
    \/ DrawCardWithin(MaxMovesDeep)
    \/ Recycle
    \/ \E call \in DeepCalls : MoveOkWithin(MaxMovesDeep, call[1], call[2], -1)
    \/ game_won /\ MoveCardFails

SpecDeep == Init /\ [][DeepNext]_vars

----------------------------------------------------------------------------
(* deck.py: the Deck on its own.  A card object held by the deck is the     *)
(* record of its three attributes; an optional argument is <<>> when it is  *)
(* None and <<v>> when it is v.                                             *)

CardObject(suit, value, fu) == [suit |-> suit, value |-> value, face_up |-> fu]

\* Card.__init__ raises ValueError
Card_init_raises(suit, value) == suit \notin SuitSet \/ value < 1 \/ value > King

DeckResult(op, success) ==
    result' = [op |-> op, success |-> success, message |-> "", state |-> CurrentState]

\* mutant of initialize_standard_deck: the deck is not cleared first
initialize_standard_deck_no_clear ==
    /\ deck_cards' = deck_cards \o
                        [i \in 1..Len(StandardDeck) |->
                            CardObject(StandardDeck[i].suit, StandardDeck[i].value, FALSE)]
    /\ deck_size' = Len(deck_cards')
    /\ deck_shuffled' = FALSE
    /\ DeckResult("Deck.initialize_standard_deck", TRUE)
    /\ UNCHANGED <<gameVars, started, before, last_move, dbVars>>

initialize_standard_deck ==
    /\ deck_cards' = [i \in 1..Len(StandardDeck) |->
                         CardObject(StandardDeck[i].suit, StandardDeck[i].value, FALSE)]
    /\ deck_size' = Len(deck_cards')
    /\ deck_shuffled' = FALSE
    /\ DeckResult("Deck.initialize_standard_deck", TRUE)
    /\ UNCHANGED <<gameVars, started, before, last_move, dbVars>>

\* the model shuffles a deck once between two initialisations
shuffle ==
    /\ ~deck_shuffled
    /\ deck_cards' \in ShuffleOutcomes(deck_cards)
    /\ deck_shuffled' = TRUE
    /\ DeckResult("Deck.shuffle", TRUE)
    /\ UNCHANGED <<deck_size, gameVars, started, before, last_move, dbVars>>

\* the result of a call that returns a card (<<card>>) or None (<<>>)
DeckReturn(op, returned) ==
    result' = [op |-> op, success |-> returned # <<>>, message |-> "",
               state |-> CurrentState, returned |-> returned]

\* mutant of draw_card: pop() in place of popleft()
draw_card_from_back ==
    /\ IF Len(deck_cards) > 0
       THEN /\ deck_cards' = SubSeq(deck_cards, 1, Len(deck_cards) - 1)
            /\ deck_size' = Len(deck_cards')
            /\ DeckReturn("Deck.draw_card", <<Last(deck_cards)>>)
       ELSE /\ UNCHANGED <<deck_cards, deck_size>>
            /\ DeckReturn("Deck.draw_card", <<>>)
    /\ UNCHANGED <<deck_shuffled, gameVars, started, before, last_move, dbVars>>

draw_card ==
    /\ IF Len(deck_cards) > 0
       THEN /\ deck_cards' = Tail(deck_cards)
            /\ deck_size' = Len(deck_cards')
            /\ DeckReturn("Deck.draw_card", <<Head(deck_cards)>>)
       ELSE /\ UNCHANGED <<deck_cards, deck_size>>
            /\ DeckReturn("Deck.draw_card", <<>>)
    /\ UNCHANGED <<deck_shuffled, gameVars, started, before, last_move, dbVars>>

add_card ==
    /\ Len(deck_cards) < MaxDeckLen
    /\ \E fu \in BOOLEAN :
          deck_cards' = Append(deck_cards, CardObject("spades", King, fu))
    /\ deck_size' = Len(deck_cards')
    /\ DeckResult("Deck.add_card", TRUE)
    /\ UNCHANGED <<deck_shuffled, gameVars, started, before, last_move, dbVars>>

create_card ==
    /\ Len(deck_cards) < MaxDeckLen
    /\ \E suit \in {"hearts", "stars"}, value \in {1, King + 1}, fu \in BOOLEAN :
          IF Card_init_raises(suit, value)
          THEN /\ UNCHANGED <<deck_cards, deck_size>>
               /\ DeckResult("Deck.create_card", FALSE)
          ELSE /\ deck_cards' = Append(deck_cards, CardObject(suit, value, fu))
               /\ deck_size' = Len(deck_cards')
               /\ DeckResult("Deck.create_card", TRUE)
    /\ UNCHANGED <<deck_shuffled, gameVars, started, before, last_move, dbVars>>

update_card ==
    /\ \E index \in {-1, 0, Len(deck_cards)},
          suit \in {<<>>, <<"stars">>}, value \in {<<>>, <<0>>}, fu \in {<<>>, <<TRUE>>} :
          IF 0 <= index /\ index < Len(deck_cards)
          THEN LET card == deck_cards[index + 1] IN
               /\ deck_cards' =
                     [deck_cards EXCEPT ![index + 1] =
                         CardObject(IF suit # <<>> THEN suit[1] ELSE card.suit,
                                    IF value # <<>> THEN value[1] ELSE card.value,
                                    IF fu # <<>> THEN fu[1] ELSE card.face_up)]
               /\ DeckResult("Deck.update_card", TRUE)
          ELSE /\ UNCHANGED deck_cards
               /\ DeckResult("Deck.update_card", FALSE)
    /\ UNCHANGED <<deck_size, deck_shuffled, gameVars, started, before, last_move, dbVars>>

\* mutant of delete_card: size is not assigned after the card is removed
delete_card_keeps_size ==
    /\ \E index \in {-1, 0, Len(deck_cards) - 1, Len(deck_cards)} :
          IF 0 <= index /\ index < Len(deck_cards)
          THEN /\ deck_cards' = PopAt(deck_cards, index)
               /\ UNCHANGED deck_size
               /\ DeckResult("Deck.delete_card", TRUE)
          ELSE /\ UNCHANGED <<deck_cards, deck_size>>
               /\ DeckResult("Deck.delete_card", FALSE)
    /\ UNCHANGED <<deck_shuffled, gameVars, started, before, last_move, dbVars>>

delete_card ==
    /\ \E index \in {-1, 0, Len(deck_cards) - 1, Len(deck_cards)} :
          IF 0 <= index /\ index < Len(deck_cards)
          THEN /\ deck_cards' = PopAt(deck_cards, index)
               /\ deck_size' = Len(deck_cards')
               /\ DeckResult("Deck.delete_card", TRUE)
          ELSE /\ UNCHANGED <<deck_cards, deck_size>>
               /\ DeckResult("Deck.delete_card", FALSE)
    /\ UNCHANGED <<deck_shuffled, gameVars, started, before, last_move, dbVars>>

DeckNext ==
    \/ initialize_standard_deck
    \/ shuffle
    \/ draw_card
    \/ add_card
    \/ create_card
    \/ update_card
    \/ delete_card

SpecDeck == Init /\ [][DeckNext]_vars

----------------------------------------------------------------------------
(* Serialization: Card.to_dict / from_dict, Deck.to_dict / from_dict and    *)
(* GameManager.to_dict / from_dict.  A from_dict result is a record whose   *)
(* field raised tells that the call raised ValueError.  deck_id, created_at *)
(* and game_id are copied through by both directions and are left out.      *)

Card_to_dict(card) == [suit |-> card.suit, value |-> card.value, face_up |-> card.face_up]

Card_from_dict(data) ==
    [raised |-> Card_init_raises(data.suit, data.value),
     card |-> CardObject(data.suit, data.value, data.face_up)]

CardDicts(cards) == [i \in 1..Len(cards) |-> Card_to_dict(cards[i])]

\* a list of Card.from_dict results: the cards built, and whether one raised
CardsFromDicts(dicts) ==
    [raised |-> \E i \in 1..Len(dicts) : Card_from_dict(dicts[i]).raised,
     cards |-> [i \in 1..Len(dicts) |-> Card_from_dict(dicts[i]).card]]

Deck_to_dict(deck) ==
    [shuffled |-> deck.shuffled, size |-> deck.size, cards |-> CardDicts(deck.cards)]

Deck_from_dict(data) ==
    [raised |-> CardsFromDicts(data.cards).raised,
     deck |-> [shuffled |-> data.shuffled, size |-> data.size,
               cards |-> CardsFromDicts(data.cards).cards]]

\* the card objects of a pile of the engine
Objects(pile, fu) == [i \in 1..Len(pile) |-> CardObject(pile[i].suit, pile[i].value, fu[pile[i]])]

TheDeck == [shuffled |-> deck_shuffled, size |-> deck_size, cards |-> deck_cards]

\* the engine as the object graph to_dict walks
TheGame ==
    [deck |-> TheDeck,
     tableau |-> [c \in 1..NumCols |-> Objects(tableau[c], face_up)],
     foundations |-> [s \in SuitSet |-> Objects(foundations[s], face_up)],
     stock |-> Objects(stock, face_up),
     waste |-> Objects(waste, face_up),
     moves_count |-> moves_count,
     game_won |-> game_won]

GameManager_to_dict(g) ==
    [deck |-> Deck_to_dict(g.deck),
     tableau |-> [c \in DOMAIN g.tableau |-> CardDicts(g.tableau[c])],
     foundations |-> [s \in DOMAIN g.foundations |-> CardDicts(g.foundations[s])],
     stock |-> CardDicts(g.stock),
     waste |-> CardDicts(g.waste),
     moves_count |-> g.moves_count,
     game_won |-> g.game_won]

GameManager_from_dict(data) ==
    [raised |-> \/ Deck_from_dict(data.deck).raised
                \/ \E c \in DOMAIN data.tableau : CardsFromDicts(data.tableau[c]).raised
                \/ \E s \in DOMAIN data.foundations : CardsFromDicts(data.foundations[s]).raised
                \/ CardsFromDicts(data.stock).raised
                \/ CardsFromDicts(data.waste).raised,
     game |-> [deck |-> Deck_from_dict(data.deck).deck,
               tableau |-> [c \in DOMAIN data.tableau |-> CardsFromDicts(data.tableau[c]).cards],
               foundations |-> [s \in DOMAIN data.foundations |->
                                   CardsFromDicts(data.foundations[s]).cards],
               stock |-> CardsFromDicts(data.stock).cards,
               waste |-> CardsFromDicts(data.waste).cards,
               moves_count |-> data.moves_count,
               game_won |-> data.game_won]]

----------------------------------------------------------------------------
(* database.py: the Database in memory, self.data['games'] as the function  *)
(* db_games from the stored game ids to their records and                   *)
(* self.data['metadata']['total_games'] as db_total_games.  Game ids are    *)
(* numbered 1..NumGameIds; of a record the store reads moves_count and      *)
(* game_won only.  _save_data returns False when writing the file fails,    *)
(* after the data in memory has changed.                                    *)

GameIds == 1..NumGameIds

SavedRecords == {[moves_count |-> m, game_won |-> w] : m \in {0, 1}, w \in BOOLEAN}

DbResult(op, success) ==
    result' = [op |-> op, success |-> success, message |-> "", state |-> CurrentState]

save_game ==
    /\ \E game_id \in GameIds, game_data \in SavedRecords, saved \in BOOLEAN :
          LET games == [id \in DOMAIN db_games \cup {game_id} |->
                           IF id = game_id THEN game_data ELSE db_games[id]]
          IN /\ db_games' = games
             /\ db_total_games' = IF game_id \notin DOMAIN games
                                  THEN db_total_games + 1 ELSE db_total_games
             /\ DbResult("Database.save_game", saved)
    /\ UNCHANGED <<deckVars, gameVars, started, before, last_move>>

\* the model follows the counter down to -MaxDeleted
delete_game ==
    /\ \E game_id \in GameIds, saved \in BOOLEAN :
          IF game_id \in DOMAIN db_games
          THEN /\ db_total_games > -MaxDeleted
               /\ db_games' = [id \in DOMAIN db_games \ {game_id} |-> db_games[id]]
               /\ db_total_games' = db_total_games - 1
               /\ DbResult("Database.delete_game", saved)
          ELSE /\ UNCHANGED dbVars
               /\ DbResult("Database.delete_game", FALSE)
    /\ UNCHANGED <<deckVars, gameVars, started, before, last_move>>

clear_all_games ==
    /\ db_games' = <<>>
    /\ db_total_games' = 0
    /\ \E saved \in BOOLEAN : DbResult("Database.clear_all_games", saved)
    /\ UNCHANGED <<deckVars, gameVars, started, before, last_move>>

RECURSIVE SumMoves(_, _)
SumMoves(games, ids) ==
    IF ids = {} THEN 0
    ELSE LET id == CHOOSE x \in ids : TRUE
         IN games[id].moves_count + SumMoves(games, ids \ {id})

get_statistics(games) ==
    LET total_games == Cardinality(DOMAIN games)
        won_games == Cardinality({id \in DOMAIN games : games[id].game_won})
    IN [total_games |-> total_games,
        won_games |-> won_games,
        lost_games |-> total_games - won_games,
        total_moves |-> SumMoves(games, DOMAIN games)]

DbNext ==
    \/ save_game
    \/ delete_game
    \/ clear_all_games

SpecDb == Init /\ [][DbNext]_vars

----------------------------------------------------------------------------
(* Properties *)

RECURSIVE Flatten(_)
Flatten(piles) == IF piles = <<>> THEN <<>> ELSE Head(piles) \o Flatten(Tail(piles))

TableauCards == Flatten(tableau)

FoundationCards == Flatten([i \in 1..Len(SUITS) |-> foundations[SUITS[i]]])

\* every card reference held by tableau, foundations, stock and waste
AllPiles == TableauCards \o FoundationCards \o stock \o waste

Occurrences(card, pile) == Cardinality({i \in 1..Len(pile) : pile[i] = card})

FoundationTotal == SumLen(foundations, SuitSet)

SuccessfulMove == result.op = "move_card" /\ result.success

FailedMove == result.op = "move_card" /\ ~result.success

\* C1: once a game has been dealt, every card of the deck occurs exactly once
\* across tableau, foundations, stock and waste.
C1_EveryCardExactlyOnce ==
    started => \A card \in AllCards : Occurrences(card, AllPiles) = 1

\* C2: a move_card call that returns success = False leaves tableau,
\* foundations, stock, waste, every face_up flag, moves_count and game_won as
\* they were, and the state it returns is the state before the call.
C2_FailedMoveChangesNothing ==
    [][(result'.op = "move_card" /\ ~result'.success)
         => (UNCHANGED gameVars /\ result'.state = CurrentState)]_vars

C2_Witness ==
    /\ FailedMove
    /\ result.message = "No puedes mover cartas boca abajo"
    /\ moves_count > 0

\* C3: every foundation pile holds cards of its own suit only, with the
\* values 1, 2, ..., k from bottom to top.
C3_FoundationsContiguous ==
    \A s \in SuitSet : \A i \in 1..Len(foundations[s]) : foundations[s][i] = Card(s, i)

C3_Witness ==
    /\ SuccessfulMove
    /\ \E s \in SuitSet : Len(foundations[s]) >= 2

\* C4: game_won is true exactly when the four foundations together hold the
\* whole deck.
C4_WonIffFoundationsFull == game_won <=> (FoundationTotal = DeckTotal)

\* C5: the last card of every non-empty tableau column is face-up.
C5_TableauTopFaceUp ==
    \A c \in 1..NumCols : Len(tableau[c]) > 0 => face_up[Last(tableau[c])]

\* C6: every card in stock is face-down.
C6_StockFaceDown == \A i \in 1..Len(stock) : ~face_up[stock[i]]

\* C7: every card in waste is face-up.
C7_WasteFaceUp == \A i \in 1..Len(waste) : face_up[waste[i]]

C7_Witness ==
    /\ SuccessfulMove
    /\ last_move[1] = <<"waste">>
    /\ Len(waste) >= 2

\* C8: right after new_game column i holds i + 1 cards of which only the
\* last is face-up, stock holds the rest of the deck face-down in deck order,
\* waste and foundations are empty, the deck is empty and no card is twice
\* in the piles.
C8_DealShape ==
    result.op = "new_game" =>
        /\ \A c \in 1..NumCols :
              /\ Len(tableau[c]) = c
              /\ \A i \in 1..c : face_up[tableau[c][i]] <=> (i = c)
        /\ Len(stock) = DeckTotal - Offset(NumCols)
        /\ \A i \in 1..Len(stock) : ~face_up[stock[i]]
        /\ TableauCards \o stock \in ShuffleOutcomes(StandardDeck)
        /\ waste = <<>>
        /\ foundations = EmptyFoundations
        /\ deck_cards = <<>> /\ deck_size = 0
        /\ \A card \in AllCards : Occurrences(card, AllPiles) = 1

C8_Witness ==
    /\ result.op = "new_game"
    /\ TableauCards \o stock # StandardDeck
    /\ Len(stock) > 1

\* C9: new_game can be called in every state and succeeds; after it
\* moves_count is 0, game_won is false, waste and foundations are empty and
\* the piles hold a fresh deal: every card once, face-up only as the last card
\* of a column.
C9_NewGameResets ==
    /\ ENABLED NewGameWith(StandardDeck)
    /\ result.op = "new_game" =>
        /\ result.success
        /\ moves_count = 0
        /\ ~game_won
        /\ waste = <<>>
        /\ foundations = EmptyFoundations
        /\ \A card \in AllCards :
              /\ Occurrences(card, TableauCards \o stock) = 1
              /\ face_up[card] <=> \E c \in 1..NumCols : tableau[c] # <<>> /\ Last(tableau[c]) = card
        /\ result.state.moves_count = 0 /\ ~result.state.game_won

C9_Witness ==
    /\ result.op = "new_game"
    /\ before.game_won
    /\ before.started

C12_NeverDecreases == [][moves_count' >= moves_count]_vars

\* C12 as amended: draw_from_stock and move_card never lower moves_count;
\* new_game sets it to 0.
C12_NeverDecreasesWithinGame ==
    [][/\ result'.op \in {"draw_from_stock", "move_card"} => moves_count' >= moves_count
       /\ result'.op = "new_game" => moves_count' = 0]_vars

C12_Witness ==
    /\ result.op = "draw_from_stock"
    /\ result.message = "Mazo reiniciado"
    /\ moves_count > 0

\* C13: a move_card call that returns success = True and a draw_from_stock
\* call made with a non-empty stock add exactly 1 to moves_count, however
\* many cards the move carries; every other draw or move outcome leaves
\* moves_count as it was.
C13_CountsOnePerMoveOrDraw ==
    [][/\ (result'.op = "move_card" /\ result'.success) => moves_count' = moves_count + 1
       /\ (result'.op = "move_card" /\ ~result'.success) => moves_count' = moves_count
       /\ (result'.op = "draw_from_stock" /\ Len(stock) > 0) => moves_count' = moves_count + 1
       /\ (result'.op = "draw_from_stock" /\ Len(stock) = 0) => moves_count' = moves_count]_vars

C13_Witness ==
    /\ SuccessfulMove
    /\ last_move[2][1] = "tableau"
    /\ last_move[4] >= 2

\* the failures move_card reports before it looks at the destination's rule
EarlierFailures ==
    {"Formato de ubicacion invalido", "Ubicacion no encontrada",
     "No hay cartas en la ubicacion origen", "Indice de carta invalido",
     "No puedes mover cartas boca abajo"}

\* the card a call selects, for a source that names a non-empty pile
Selected(from_location, card_index) ==
    LET from_pile == _get_pile(from_location) IN
    from_pile[(IF card_index = -1 THEN Len(from_pile) - 1 ELSE card_index) + 1]

\* C14: a move_card call that passes the location, empty-source, index and
\* face-down checks and names foundation_<suit> as destination succeeds
\* exactly when the selected card has that suit and either the foundation is
\* empty and the value is 1 or the value is the value of the foundation's top
\* card plus 1; otherwise it fails as an illegal foundation move.
C14_FoundationRule ==
    \A from_location \in Locations, to_location \in FoundationLocations :
        \A card_index \in CardIndexes(from_location) :
            LET failure == MoveFailure(from_location, to_location, card_index) IN
            failure \notin EarlierFailures =>
                LET card == Selected(from_location, card_index)
                    pile == foundations[to_location[2]]
                    legal == /\ card.suit = to_location[2]
                             /\ \/ Len(pile) = 0 /\ card.value = 1
                                \/ Len(pile) > 0 /\ card.value = Last(pile).value + 1
                IN /\ (failure = "") <=> legal
                   /\ failure # "" => failure = "Movimiento no valido a la fundacion"

\* after a move, with the hearts foundation empty: the Ace of hearts may go
\* there and the 2 of hearts may not
C14_Witness ==
    /\ SuccessfulMove
    /\ foundations["hearts"] = <<>>
    /\ \E from_location \in Locations :
          /\ MoveFailure(from_location, <<"foundation", "hearts">>, -1) = ""
          /\ Selected(from_location, -1) = Card("hearts", 1)
    /\ \E from_location \in Locations :
          /\ MoveFailure(from_location, <<"foundation", "hearts">>, -1)
                = "Movimiento no valido a la fundacion"
          /\ Selected(from_location, -1) = Card("hearts", 2)

\* C15: a move_card call that passes the location, empty-source, index and
\* face-down checks and names a tableau column as destination succeeds
\* exactly when the column is empty and the selected card is a King, or the
\* column is not empty and the selected card is one lower than the column's
\* top card and of the other colour (hearts and diamonds red, clubs and spades
\* black); otherwise it fails as an illegal tableau move.
C15_TableauRule ==
    \A from_location \in Locations, to_location \in ValidTableauLocations :
        \A card_index \in CardIndexes(from_location) :
            LET failure == MoveFailure(from_location, to_location, card_index) IN
            failure \notin EarlierFailures =>
                LET card == Selected(from_location, card_index)
                    pile == _get_pile(to_location)
                    red(c) == c.suit \in {"hearts", "diamonds"}
                    legal == \/ Len(pile) = 0 /\ card.value = King
                             \/ /\ Len(pile) > 0
                                /\ card.value = Last(pile).value - 1
                                /\ red(card) # red(Last(pile))
                IN /\ (failure = "") <=> legal
                   /\ failure # "" => failure = "Movimiento no valido al tableau"

\* a column that holds a black King alone takes the red card one lower and
\* refuses the black one
C15_Witness ==
    /\ result.op = "move_card"
    /\ \E to_location \in ValidTableauLocations :
          /\ Len(_get_pile(to_location)) = 1
          /\ _get_pile(to_location)[1].value = King
          /\ ~is_red(_get_pile(to_location)[1])
          /\ \E from_location \in Locations, card_index \in -1..DeckTotal :
                /\ card_index \in CardIndexes(from_location)
                /\ MoveFailure(from_location, to_location, card_index) = ""
                /\ is_red(Selected(from_location, card_index))
          /\ \E from_location \in Locations, card_index \in -1..DeckTotal :
                /\ card_index \in CardIndexes(from_location)
                /\ MoveFailure(from_location, to_location, card_index)
                      = "Movimiento no valido al tableau"
                /\ Selected(from_location, card_index).value = King - 1
                /\ ~is_red(Selected(from_location, card_index))

\* the pile of the engine a location names, read from the piles given
PileAt(location, t, f, s, w) ==
    LET key == PileKey(location) IN
    IF key[1] = "tableau" THEN t[DigitValue[key[2]] + 1]
    ELSE IF key[1] = "foundation" THEN f[key[2]]
    ELSE IF key[1] = "waste" THEN w
    ELSE s

\* C16: after a move_card call that returns success = True between two
\* different piles, whatever locations the engine accepted, the source pile
\* holds its cards before the index (without the one card moved, for a
\* foundation destination) in their order, and the destination pile holds its
\* previous cards followed by the moved cards in their order.
C16_MovedFromSourceToDestination ==
    [][(result'.op = "move_card" /\ result'.success
          /\ PileKey(last_move'[1]) # PileKey(last_move'[2]))
         => LET source == _get_pile(last_move'[1])
                destination == _get_pile(last_move'[2])
                index == last_move'[3]
                moved == IF last_move'[2][1] = "foundation" THEN <<source[index + 1]>>
                         ELSE SliceFrom(source, index)
                rest == IF last_move'[2][1] = "foundation" THEN PopAt(source, index)
                        ELSE DelFrom(source, index)
            IN /\ PileAt(last_move'[1], tableau', foundations', stock', waste') = rest
               /\ PileAt(last_move'[2], tableau', foundations', stock', waste')
                     = destination \o moved]_vars

\* C17: every card a move_card call that returns success = True moves was
\* face-up before the call, whatever the source location.
C17_OnlyFaceUpCardsMove ==
    [][(result'.op = "move_card" /\ result'.success)
         => LET source == _get_pile(last_move'[1])
                moved == IF last_move'[2][1] = "foundation" THEN <<source[last_move'[3] + 1]>>
                         ELSE SliceFrom(source, last_move'[3])
            IN \A i \in 1..Len(moved) : face_up[moved[i]]]_vars

\* C18: after a move_card call that returns success = True the source pile,
\* if it still holds cards, ends with a face-up card, and no flag other than
\* that of the source pile's new last card differs from before the call.
C18_RevealsNewTopOnly ==
    [][(result'.op = "move_card" /\ result'.success)
         => LET source == PileAt(last_move'[1], tableau', foundations', stock', waste')
            IN /\ Len(source) > 0 => face_up'[Last(source)]
               /\ \A card \in AllCards :
                     face_up'[card] # face_up[card] => Len(source) > 0 /\ card = Last(source)]_vars

\* the grammar ^(tableau_[0-6]|foundation_(hearts|diamonds|clubs|spades)|waste|stock)$,
\* the columns being those of the model
MatchesGrammar(location) ==
    \/ location = <<"waste">>
    \/ location = <<"stock">>
    \/ Len(location) = 2 /\ location[1] = "tableau"
          /\ location[2] \in Digits /\ DigitValue[location[2]] < NumCols
    \/ Len(location) = 2 /\ location[1] = "foundation" /\ location[2] \in SuitSet

\* C19: a move_card call with a from_location or to_location outside the
\* grammar fails with the invalid-format or the not-found failure (and so,
\* by C2, changes nothing).
C19_OutsideGrammarFails ==
    \A from_location \in Locations, to_location \in Locations :
        (~MatchesGrammar(from_location) \/ ~MatchesGrammar(to_location)) =>
            \A card_index \in CardIndexes(from_location) :
                MoveFailure(from_location, to_location, card_index)
                    \in {"Formato de ubicacion invalido", "Ubicacion no encontrada"}

\* every card object the deck and the engine hold
LiveCardObjects ==
    Range(deck_cards) \cup Range(Objects(AllPiles, face_up))

\* C20: Card.from_dict(c.to_dict()) has the suit, value and face_up of c for
\* every card, Deck.from_dict(d.to_dict()).to_dict() equals d.to_dict() for
\* the deck, and GameManager.from_dict(g.to_dict()).to_dict() equals
\* g.to_dict() for the engine; none of the from_dict calls raises.
C20_RoundTrips ==
    /\ \A card \in LiveCardObjects :
          /\ ~Card_from_dict(Card_to_dict(card)).raised
          /\ Card_from_dict(Card_to_dict(card)).card = card
    /\ ~Deck_from_dict(Deck_to_dict(TheDeck)).raised
    /\ Deck_to_dict(Deck_from_dict(Deck_to_dict(TheDeck)).deck) = Deck_to_dict(TheDeck)
    /\ ~GameManager_from_dict(GameManager_to_dict(TheGame)).raised
    /\ GameManager_to_dict(GameManager_from_dict(GameManager_to_dict(TheGame)).game)
          = GameManager_to_dict(TheGame)

\* the four foundations of a restored engine hold the values 1..King of their
\* suit in ascending order
FoundationsComplete(f) ==
    \A s \in SuitSet :
        /\ Len(f[s]) = King
        /\ \A v \in 1..King : f[s][v].suit = s /\ f[s][v].value = v

\* C21: an engine restored through GameManager.from_dict has game_won = true
\* when its four foundations hold every card of their suit in ascending order
\* and game_won = false for any other distribution of the cards, whatever
\* game_won value the record carries.
C21_RestoredWinIsRecomputed ==
    \A gw \in BOOLEAN :
        LET data == [GameManager_to_dict(TheGame) EXCEPT !.game_won = gw]
            restored == GameManager_from_dict(data)
        IN ~restored.raised =>
              (restored.game.game_won <=> FoundationsComplete(restored.game.foundations))

\* C22: a won game is not blocked: in a state with game_won = true
\* draw_from_stock is accepted and reports success, the King on top of a
\* foundation is accepted on an empty tableau column, and every move_card call
\* that returns success = True there changes the tableau or the foundations
\* and adds 1 to moves_count.
C22_NotBlockedAfterWin ==
    [][game_won =>
         /\ (Len(stock) > 0 /\ moves_count < MaxMovesDeep)
               => ENABLED DrawCardWithin(MaxMovesDeep)
         /\ result'.op = "draw_from_stock" => result'.success
         /\ \A s \in SuitSet, to_location \in ValidTableauLocations :
               (/\ moves_count < MaxMovesDeep
                /\ Len(foundations[s]) > 0
                /\ Last(foundations[s]).value = King
                /\ Len(_get_pile(to_location)) = 0)
               => ENABLED MoveOkWithin(MaxMovesDeep, <<"foundation", s>>, to_location, -1)
         /\ (result'.op = "move_card" /\ result'.success)
               => /\ moves_count' = moves_count + 1
                  /\ <<tableau', foundations'>> # <<tableau, foundations>>]_vars

\* a King has left its foundation for a tableau column in a won game
C22_Witness ==
    /\ SuccessfulMove
    /\ before.game_won
    /\ last_move[1][1] = "foundation"
    /\ last_move[2][1] = "tableau"
    /\ Last(_get_pile(last_move[2])).value = King
    /\ moves_count = result.state.moves_count

\* C23: on an engine on which new_game has never been called, whatever
\* draw_from_stock and move_card calls were made, the tableau columns, the
\* four foundations, stock and waste are empty, moves_count is 0 and game_won
\* is false.
C23_UnstartedStaysEmpty ==
    ~started =>
        /\ \A c \in 1..NumCols : tableau[c] = <<>>
        /\ \A s \in SuitSet : foundations[s] = <<>>
        /\ stock = <<>>
        /\ waste = <<>>
        /\ moves_count = 0
        /\ ~game_won

\* a move_card call has been answered by an engine that was never dealt
C23_Witness ==
    /\ ~started
    /\ FailedMove
    /\ result.message = "No hay cartas en la ubicacion origen"

\* C24: the Deck is a first-in first-out queue: add_card puts its card behind
\* the cards the deck holds and leaves those in their order, draw_card returns
\* the front card and leaves the others in their order, so that cards come
\* out in the order they went in; on an empty deck draw_card returns None and
\* leaves the deck as it is.
C24_DeckIsFifo ==
    [][/\ result'.op = "Deck.add_card"
            => /\ Len(deck_cards') = Len(deck_cards) + 1
               /\ SubSeq(deck_cards', 1, Len(deck_cards)) = deck_cards
       /\ (result'.op = "Deck.draw_card" /\ Len(deck_cards) > 0)
            => /\ result'.returned = <<deck_cards[1]>>
               /\ deck_cards = result'.returned \o deck_cards'
       /\ (result'.op = "Deck.draw_card" /\ Len(deck_cards) = 0)
            => /\ result'.returned = <<>>
               /\ UNCHANGED deckVars]_vars

\* of two cards that differ, the one at the front has been drawn and the other
\* one is left
C24_Witness ==
    /\ result.op = "Deck.draw_card"
    /\ result.returned # <<>>
    /\ Len(deck_cards) = 1
    /\ deck_cards[1] # result.returned[1]
    /\ deck_size = 1

\* C25: whatever the deck held before, after initialize_standard_deck it
\* holds every (suit, value) combination exactly once, all face-down, suit by
\* suit in the order hearts, diamonds, clubs, spades with the values ascending
\* from 1 inside each suit, shuffled is false and size is the number of
\* cards; a second call in a row leaves the same contents.
C25_InitializeReplaces ==
    [][result'.op = "Deck.initialize_standard_deck"
         => /\ Len(deck_cards') = DeckTotal
            /\ \A suit \in SuitSet, value \in Values :
                  Cardinality({i \in 1..Len(deck_cards') :
                                  /\ deck_cards'[i].suit = suit
                                  /\ deck_cards'[i].value = value}) = 1
            /\ \A i \in 1..Len(deck_cards') :
                  /\ ~deck_cards'[i].face_up
                  /\ deck_cards'[i].suit
                        = <<"hearts", "diamonds", "clubs", "spades">>[((i - 1) \div King) + 1]
                  /\ deck_cards'[i].value = ((i - 1) % King) + 1
            /\ ~deck_shuffled'
            /\ deck_size' = DeckTotal
            /\ result.op = "Deck.initialize_standard_deck" => deck_cards' = deck_cards]_vars

\* the deck right after the call
C25_Witness ==
    /\ result.op = "Deck.initialize_standard_deck"
    /\ Len(deck_cards) = DeckTotal
    /\ deck_cards[1] = CardObject("hearts", 1, FALSE)
    /\ deck_cards[DeckTotal] = CardObject("spades", King, FALSE)
    /\ ~deck_shuffled

\* C26: move_card reports the first failure that applies, in the order
\* (1) a location that does not match the pattern, (2) a location that names
\* no pile, (3) an empty source, (4) an index outside the source, (5) a
\* face-down card that is not the source's last, (6) a move the destination's
\* rule refuses; so an empty source with an out-of-range index reports the
\* empty source, and a bad destination reports the location failure even when
\* the source is empty.
C26_FirstFailureInOrder ==
    \A from_location \in Locations, to_location \in Locations :
        \A card_index \in CardIndexes(from_location) :
            LET n == Len(_get_pile(from_location)) IN
            MoveFailure(from_location, to_location, card_index) \in
                IF ~MatchesPattern(from_location) \/ ~MatchesPattern(to_location)
                THEN {"Formato de ubicacion invalido"}
                ELSE IF PileKey(from_location) = None \/ PileKey(to_location) = None
                THEN {"Ubicacion no encontrada"}
                ELSE IF n = 0
                THEN {"No hay cartas en la ubicacion origen"}
                ELSE IF card_index # -1 /\ (card_index < 0 \/ card_index >= n)
                THEN {"Indice de carta invalido"}
                ELSE IF /\ ~face_up[Selected(from_location, card_index)]
                        /\ card_index \notin {-1, n - 1}
                THEN {"No puedes mover cartas boca abajo"}
                ELSE {"", "Movimiento no valido a la fundacion",
                      "Movimiento no valido al tableau"}

\* after a successful move: a call with an empty source and an index outside
\* it reports the empty source, one with an empty source and a destination
\* that names no pile reports the location, and a face-down card under the top
\* of a column is refused before the destination's rule is looked at
C26_Witness ==
    /\ SuccessfulMove
    /\ \E from_location \in FoundationLocations :
          /\ Len(_get_pile(from_location)) = 0
          /\ MoveFailure(from_location, <<"waste">>, 0)
                = "No hay cartas en la ubicacion origen"
          /\ MoveFailure(from_location, <<"foundation", "stars">>, -1)
                = "Ubicacion no encontrada"
          /\ MoveFailure(from_location, <<"Waste">>, -1) = "Formato de ubicacion invalido"
    /\ \E from_location \in ValidTableauLocations :
          MoveFailure(from_location, <<"foundation", "hearts">>, 0)
              = "No puedes mover cartas boca abajo"

\* C27: on a source pile of n > 0 cards card_index = -1 gives the call the
\* outcome of card_index = n - 1: the same failure, or the same piles after
\* the move; any other card_index outside 0..n-1, -2 and n among them, fails
\* as an invalid index (and so, by C2, changes nothing), and no index inside
\* 0..n-1 does.
C27_IndexDefaultAndRange ==
    \A from_location \in Locations, to_location \in Locations :
        (/\ MatchesPattern(from_location) /\ MatchesPattern(to_location)
         /\ PileKey(from_location) # None /\ PileKey(to_location) # None
         /\ Len(_get_pile(from_location)) > 0)
        => LET n == Len(_get_pile(from_location)) IN
           /\ MoveFailure(from_location, to_location, -1)
                 = MoveFailure(from_location, to_location, n - 1)
           /\ MoveFailure(from_location, to_location, -1) = ""
                 => MovedPiles(from_location, to_location, -1)
                       = MovedPiles(from_location, to_location, n - 1)
           /\ \A card_index \in CardIndexes(from_location) \cup {-3, n + 1} :
                 (card_index < -1 \/ card_index >= n)
                     <=> MoveFailure(from_location, to_location, card_index)
                            = "Indice de carta invalido"

\* a move made with the default index could have been made with the index of
\* the last card, from a pile of several cards that refuses the indexes -2
\* and n
C27_Witness ==
    /\ SuccessfulMove
    /\ \E from_location \in Locations, to_location \in Locations :
          /\ MoveFailure(from_location, to_location, -1) = ""
          /\ Len(_get_pile(from_location)) >= 2
          /\ MoveFailure(from_location, to_location, Len(_get_pile(from_location)) - 1) = ""
          /\ MoveFailure(from_location, to_location, -2) = "Indice de carta invalido"
          /\ MoveFailure(from_location, to_location, Len(_get_pile(from_location)))
                = "Indice de carta invalido"

\* C28: in every state of a dealt game each card of a tableau column that
\* lies on a face-up card is face-up, one lower in value than that card and
\* of the other colour.
C28_TableauCascades ==
    started =>
        \A c \in 1..NumCols : \A i \in 1..(Len(tableau[c]) - 1) :
            LET lower == tableau[c][i]
                upper == tableau[c][i + 1]
            IN face_up[lower] =>
                  /\ face_up[upper]
                  /\ upper.value = lower.value - 1
                  /\ is_red(upper) # is_red(lower)

\* C29: once game_won is true, every draw_from_stock call and every move_card
\* call, accepted or failed, leaves it true; new_game leaves it false, and no
\* other call takes it from true to false.
C29_WonIsAbsorbing ==
    [][/\ (game_won /\ result'.op \in {"draw_from_stock", "move_card"}) => game_won'
       /\ result'.op = "new_game" => ~game_won'
       /\ (game_won /\ ~game_won') => result'.op = "new_game"]_vars

\* a card has been taken back from the foundations of a won game, which is
\* still reported as won
C29_Witness ==
    /\ SuccessfulMove
    /\ before.game_won
    /\ game_won
    /\ FoundationTotal < DeckTotal

\* C30: in a dealt game in which only draw_from_stock is called, and called
\* again and again, every card that stock and waste hold is at some later
\* time the last card of waste, stock is empty again and again, and the cards
\* that stock and waste hold together are the same after every call.
C30_DrawsCycleStockAndWaste ==
    /\ \A card \in AllCards :
          [](started /\ card \in Range(stock) \cup Range(waste)
                => <>(waste # <<>> /\ Last(waste) = card))
    /\ [](started => <>(stock = <<>>))
    /\ [][started => /\ Range(stock') \cup Range(waste') = Range(stock) \cup Range(waste)
                     /\ Len(stock') + Len(waste') = Len(stock) + Len(waste)]_vars

\* the last card of the stock has come to the top of waste for the second
\* time
C30_Witness ==
    /\ started
    /\ result.message = "Carta extraida del mazo"
    /\ stock = <<>>
    /\ Len(waste) >= 1
    /\ moves_count = 2 * Len(waste)

\* the number of times a card object occurs in a list of card objects
CountIn(card, cards) == Cardinality({i \in 1..Len(cards) : cards[i] = card})

\* C31: after any sequence of initialize_standard_deck, shuffle, draw_card,
\* add_card, create_card, delete_card and update_card calls on a new deck,
\* size is the number of cards the deck holds; a shuffle leaves size and the
\* number of times each card occurs as they were and leaves shuffled true.
C31_SizeIsLengthAndShufflePermutes ==
    /\ [](deck_size = Len(deck_cards))
    /\ [][result'.op = "Deck.shuffle"
            => /\ deck_size' = deck_size
               /\ Len(deck_cards') = Len(deck_cards)
               /\ \A card \in Range(deck_cards) \cup Range(deck_cards') :
                     CountIn(card, deck_cards') = CountIn(card, deck_cards)
               /\ deck_shuffled']_vars

\* a partly drawn deck has been shuffled into another order
C31_Witness ==
    /\ result.op = "Deck.shuffle"
    /\ deck_shuffled
    /\ 2 <= Len(deck_cards) /\ Len(deck_cards) < DeckTotal
    /\ deck_size = Len(deck_cards)
    /\ \E i \in 1..(Len(deck_cards) - 1) :
          /\ deck_cards[i].suit = deck_cards[i + 1].suit
          /\ deck_cards[i].value > deck_cards[i + 1].value

\* C32: after any sequence of save_game, delete_game and clear_all_games
\* calls on an empty database, metadata.total_games is the number of stored
\* game records, is not negative, and is the total_games that get_statistics
\* reports.
C32_TotalGamesCountsRecords ==
    /\ db_total_games = Cardinality(DOMAIN db_games)
    /\ db_total_games >= 0
    /\ get_statistics(db_games).total_games = db_total_games

====
